---- MODULE Spec2Model ----
(***************************************************************************)
(* A model of nabo's GraphPlot (src/nabo/_graphplot.py).  The constructor  *)
(* is the whole program: it stores its arguments, keeps the nodes of g     *)
(* that carry 'pos', and then runs _plot_edges, _set_vertex_color,         *)
(* _set_vertex_size, _plot_nodes, _place_attr_label, _clean and            *)
(* _show_save in this order.  Each of these is one action; pc is the       *)
(* position of the constructor.                                            *)
(*                                                                         *)
(* Numbers.  Every numeric value (a node value, a threshold, a size) is    *)
(* held in hundredths: the integer 3 is 300, the float 1.5 is 150.  Node   *)
(* values are whole numbers, percentile ranks are whole percents, so every *)
(* percentile (linear interpolation) is an exact number of hundredths.     *)
(* Floating-point rounding is not modelled.                                *)
(*                                                                         *)
(* Values.  A Python value is a record [t, n, s]: t its type ("int",       *)
(* "float", "str", "tuple"), n its number in hundredths (the length for a  *)
(* tuple), s its characters (for a str).  None is <<>> and a given         *)
(* optional argument x is <<x>>.                                           *)
(***************************************************************************)
EXTENDS Integers, Sequences, FiniteSets, TLC

VARIABLES
    args,            \* the constructor's arguments (never assigned)
    g,               \* the input graph: nodes, edges, and the node attributes
    graph,           \* self.graph
    vertexColor,     \* self.vertexColor
    vertexColorMin,  \* self.vertexColorMin
    vertexColorMax,  \* self.vertexColorMax
    colormap,        \* self.colormap
    binning,         \* _set_vertex_color's locals at its binning: vals, n_vals, new_vals
    vertexSize,      \* self.vertexSize
    vertexSizeMin,   \* self.vertexSizeMin
    vertexSizeMax,   \* self.vertexSizeMax
    coordLookups,    \* the nodes _get_coords was called for
    drawn,           \* what was handed to the axis: edges, sizes, colours, labels
    pc               \* the constructor's position, or "raised"

vars == <<args, g, graph, vertexColor, vertexColorMin, vertexColorMax, colormap,
          binning, vertexSize, vertexSizeMin, vertexSizeMax, coordLookups, drawn, pc>>

-----------------------------------------------------------------------------
(* Bounds of the model *)

MaxNodes == 3      \* node names are 1..MaxNodes
MaxVal == 3        \* numeric node values are the whole numbers 0..MaxVal
MaxColors == 3     \* max_ncolors ranges over 0..MaxColors

(* Hundredths per unit: np.percentile's ranks are percents *)
Scale == 100

Nodes == 1..MaxNodes

None == <<>>
Some(x) == <<x>>

-----------------------------------------------------------------------------
(* Python values *)

IntV(k) == [t |-> "int", n |-> k * Scale, s |-> <<>>]
FloatV(c) == [t |-> "float", n |-> c, s |-> <<>>]
StrV(chars) == [t |-> "str", n |-> 0, s |-> chars]
TupV(len) == [t |-> "tuple", n |-> len, s |-> <<>>]

Range(f) == {f[x] : x \in DOMAIN f}

SetMin(S) == CHOOSE x \in S : \A y \in S : x <= y
SetMax(S) == CHOOSE x \in S : \A y \in S : y <= x

RECURSIVE SortedSeq(_)
SortedSeq(S) == IF S = {} THEN <<>>
                ELSE <<SetMin(S)>> \o SortedSeq(S \ {SetMin(S)})

(* list(d.values()) of a dict d whose keys were inserted in ascending order *)
Values(d) == LET ks == SortedSeq(DOMAIN d) IN [i \in 1..Len(ks) |-> d[ks[i]]]

EmptyDict == [k \in {} |-> 0]

-----------------------------------------------------------------------------
(* natsort.natsorted: a string's key is its runs of non-digits and of digits,
   alternating and starting with a (possibly empty) run of non-digits; a run
   of digits counts as the number it spells.  Keys compare as Python tuples. *)

Digits == <<"0", "1", "2", "3", "4", "5", "6", "7", "8", "9">>
Letters == <<"a", "b", "c", "d", "e", "f", "g", "h", "i", "j", "k", "l", "m",
             "n", "o", "p", "q", "r", "s", "t", "u", "v", "w", "x", "y", "z">>

IsDigit(c) == \E i \in 1..Len(Digits) : Digits[i] = c
DigitVal(c) == (CHOOSE i \in 1..Len(Digits) : Digits[i] = c) - 1
(* ord(c) *)
CharOrd(c) == IF IsDigit(c) THEN 48 + DigitVal(c)
              ELSE 96 + (CHOOSE i \in 1..Len(Letters) : Letters[i] = c)

RECURSIVE RunLen(_, _)
RunLen(s, d) == IF s = <<>> \/ IsDigit(s[1]) # d THEN 0
                ELSE 1 + RunLen(Tail(s), d)

RECURSIVE NumVal(_)
NumVal(ds) == IF ds = <<>> THEN 0
              ELSE 10 * NumVal(SubSeq(ds, 1, Len(ds) - 1)) + DigitVal(ds[Len(ds)])

RECURSIVE Runs(_)
Runs(s) ==
    IF s = <<>> THEN <<>>
    ELSE LET d == IsDigit(s[1])
             n == RunLen(s, d)
             run == SubSeq(s, 1, n)
         IN  <<[num |-> d, v |-> IF d THEN NumVal(run) ELSE 0,
                str |-> IF d THEN <<>> ELSE run]>>
             \o Runs(SubSeq(s, n + 1, Len(s)))

NatKey(s) == IF s # <<>> /\ IsDigit(s[1])
             THEN <<[num |-> FALSE, v |-> 0, str |-> <<>>]>> \o Runs(s)
             ELSE Runs(s)

RECURSIVE StrLess(_, _)
StrLess(a, b) ==
    IF b = <<>> THEN FALSE
    ELSE IF a = <<>> THEN TRUE
    ELSE IF a[1] # b[1] THEN CharOrd(a[1]) < CharOrd(b[1])
    ELSE StrLess(Tail(a), Tail(b))

RunLess(x, y) == IF x.num THEN x.v < y.v ELSE StrLess(x.str, y.str)

RECURSIVE KeyLess(_, _)
KeyLess(k1, k2) ==
    IF k2 = <<>> THEN FALSE
    ELSE IF k1 = <<>> THEN TRUE
    ELSE IF k1[1] # k2[1] THEN RunLess(k1[1], k2[1])
    ELSE KeyLess(Tail(k1), Tail(k2))

(* as NatSortedRanks, with sorted in place of natsorted: plain string order *)
PlainSortedRanks(uniq) ==
    {m \in [uniq -> 0..(Cardinality(uniq) - 1)] :
        /\ \A a, b \in uniq : a # b => m[a] # m[b]
        /\ \A a, b \in uniq : StrLess(a.s, b.s) => m[a] < m[b]}

(* {v: n for n, v in enumerate(natsorted(set(...)))}: the positions of the
   distinct strings in natural order.  Strings with equal keys ("a1", "a01")
   keep the order the set yields them in, which is any order. *)
NatSortedRanks(uniq) ==
    {m \in [uniq -> 0..(Cardinality(uniq) - 1)] :
        /\ \A a, b \in uniq : a # b => m[a] # m[b]
        /\ \A a, b \in uniq : KeyLess(NatKey(a.s), NatKey(b.s)) => m[a] < m[b]}

-----------------------------------------------------------------------------
(* The stored arguments that no method assigns (lines 91-122) *)

vertexColorAttr == args.vc_attr
vertexColorTrimValue == args.vc_percent_trim
maxNColors == args.max_ncolors
vertexSizeScale == args.vs_scale
vertexSizeTrimValue == args.vs_percent_trim
labelAttr == args.label_attr
labelAttrType == args.label_attr_type

(* Colours.  colors.to_rgb(name) is the RGB triple of a colour name; entry idx
   of sns.color_palette(cmap, n) is a palette colour; a tuple value is taken as
   an RGB triple as it is. *)
ToRgb(name) == [kind |-> "rgb", name |-> name, cmap |-> "", n |-> 0, idx |-> 0]
PaletteColor(cmap, n, idx) == [kind |-> "palette", name |-> <<>>, cmap |-> cmap, n |-> n, idx |-> idx]
TupleColor(v) == [kind |-> "tuple", name |-> <<>>, cmap |-> "", n |-> v.n, idx |-> 0]

(* vc_default = 'grey', converted by to_rgb *)
vertexColorDefault == ToRgb(<<"g", "r", "e", "y">>)

(* A value of self.vertexColor or self.vertexSize: a str, a number, a dict, or
   something else *)
StrArg(chars) == [type |-> "str", str |-> chars, num |-> 0, dict |-> EmptyDict]
NumArg(c) == [type |-> "num", str |-> <<>>, num |-> c, dict |-> EmptyDict]
DictArg(d) == [type |-> "dict", str |-> <<>>, num |-> 0, dict |-> d]
OtherArg == [type |-> "other", str |-> <<>>, num |-> 0, dict |-> EmptyDict]

-----------------------------------------------------------------------------
(* __init__, lines 129-133 *)

HasPos(node) == node \in DOMAIN g.pos

(* as KeepNodes, without the test for 'pos' *)
KeepAllNodes == g.nodes

KeepNodes == {node \in g.nodes : HasPos(node)}

(* networkx: g.subgraph(keep) has the nodes of g in keep and the edges of g
   between two of them *)
Subgraph(keep) == [nodes |-> g.nodes \cap keep,
                   edges |-> {e \in g.edges : e \subseteq keep}]

MakeGraph ==
    /\ pc = "init"
    /\ graph' = Subgraph(KeepNodes)
    /\ pc' = "plot_edges"
    /\ UNCHANGED <<args, g, vertexColor, vertexColorMin, vertexColorMax, colormap,
                   binning, vertexSize, vertexSizeMin, vertexSizeMax, coordLookups, drawn>>

(* _get_coords raises KeyError for a node that has no 'pos' *)
CoordsRaise(nodes) == \E node \in nodes : ~HasPos(node)

(* _plot_edges *)
EdgeEnds == UNION graph.edges

PlotEdges ==
    /\ pc = "plot_edges"
    /\ coordLookups' = coordLookups \cup EdgeEnds
    /\ IF CoordsRaise(EdgeEnds)
       THEN pc' = "raised" /\ drawn' = drawn
       ELSE /\ pc' = "set_vertex_color"
            /\ drawn' = [drawn EXCEPT !.edges = {<<g.pos[SetMin(e)], g.pos[SetMax(e)]>> : e \in graph.edges}]
    /\ UNCHANGED <<args, g, graph, vertexColor, vertexColorMin, vertexColorMax, colormap,
                   binning, vertexSize, vertexSizeMin, vertexSizeMax>>

-----------------------------------------------------------------------------
(* _set_vertex_color *)

(* The names colors.to_rgb accepts among the strings of the model; it raises
   ValueError for any other string *)
Steelblue == <<"s", "t", "e", "e", "l", "b", "l", "u", "e">>
ColorNames == {<<"r">>, <<"b">>, <<"k">>, <<"g", "r", "e", "y">>, Steelblue}
IsColorName(chars) == chars \in ColorNames

(* as FromAttr, with a vc dictionary not replaced by the attribute values *)
FromAttrKeepsDict(vc) ==
    IF vertexColorAttr = None \/ vc.type = "dict" THEN {vc}
    ELSE LET d == [i \in graph.nodes |-> g.attr[i]]
         IN  IF graph.nodes # {} /\ \A x \in Range(d) : x.t = "str"
             THEN {DictArg([k \in DOMAIN d |-> IntV(int_map[d[k]])]) :
                       int_map \in NatSortedRanks(Range(d))}
             ELSE {DictArg(d)}

(* lines 171-184: the values self.vertexColor may have after them *)
FromAttr(vc) ==
    IF vertexColorAttr = None THEN {vc}
    ELSE LET d == [i \in graph.nodes |-> g.attr[i]]
             uniq_vals == Range(d)
         IN  IF graph.nodes # {} /\ \A x \in uniq_vals : x.t = "str"
             THEN {DictArg([k \in DOMAIN d |-> IntV(int_map[d[k]])]) :
                       int_map \in NatSortedRanks(uniq_vals)}
             ELSE {DictArg(d)}

(* np.percentile(vals, q), linear interpolation between the two nearest ranks *)
Percentile(vals, q) ==
    LET sorted == SortSeq(vals, LAMBDA a, b : a < b)
        n == Len(sorted)
        lower == (q * (n - 1)) \div 100
        rem == (q * (n - 1)) % 100
        a == sorted[lower + 1]
        b == IF lower + 2 <= n THEN sorted[lower + 2] ELSE a
    IN  a + (rem * (b - a)) \div 100

SeqMin(vals) == SetMin(Range(vals))
SeqMax(vals) == SetMax(Range(vals))

(* as ThresholdMin, with the trim value ignored *)
ThresholdMinNoTrim(vals) ==
    IF vertexColorMin = None THEN SeqMin(vals) ELSE vertexColorMin[1]

(* lines 198-203 *)
ThresholdMin(vals) ==
    IF vertexColorMin = None
    THEN IF vertexColorTrimValue # None
         THEN Percentile(vals, vertexColorTrimValue[1])
         ELSE SeqMin(vals)
    ELSE vertexColorMin[1]

(* lines 204-209 *)
ThresholdMax(vals) ==
    IF vertexColorMax = None
    THEN IF vertexColorTrimValue # None
         THEN Percentile(vals, 100 - vertexColorTrimValue[1])
         ELSE SeqMax(vals)
    ELSE vertexColorMax[1]

(* as Clamp, with the lower threshold not applied *)
ClampAboveOnly(v, lo, hi) == IF v > hi THEN hi ELSE v

(* lines 210-214, one value *)
Clamp(v, lo, hi) == IF v > hi THEN hi ELSE IF v < lo THEN lo ELSE v

(* as NVals, without the cap at max_ncolors *)
NValsUncapped(uniq_vals) == Cardinality(uniq_vals)

(* line 227 *)
NVals(uniq_vals) == IF Cardinality(uniq_vals) < maxNColors
                    THEN Cardinality(uniq_vals) ELSE maxNColors

(* np.digitize(x, np.linspace(lo, hi, n + 1)): the number of the n + 1 equally
   spaced edges lo + i * (hi - lo) / n that are <= x; linspace(lo, hi, 1) is [lo] *)
Digitize(x, lo, hi, n) ==
    Cardinality({i \in 0..n : n * (x - lo) >= i * (hi - lo)})

(* lines 221-225 *)
PickColormap(uniq_vals) ==
    IF colormap = None
    THEN IF Cardinality(uniq_vals) < 20 THEN "hls" ELSE "magma_r"
    ELSE colormap[1]

NoBinning == [done |-> FALSE, vals |-> EmptyDict, n_vals |-> 0, new_vals |-> EmptyDict]

Outcome(raised, vc, lo, hi, cmap, bins) ==
    [raised |-> raised, vc |-> vc, vmin |-> lo, vmax |-> hi, cmap |-> cmap, binning |-> bins]

AllDefault == [x \in graph.nodes |-> vertexColorDefault]

(* lines 198-234: numeric values.  vals.min() raises ValueError for no value;
   palette[v] raises IndexError for v outside 0..n_vals-1 *)
NumericColors(d) ==
    IF DOMAIN d = {}
    THEN Outcome(TRUE, EmptyDict, vertexColorMin, vertexColorMax, colormap, NoBinning)
    ELSE LET nums == [k \in DOMAIN d |-> d[k].n]
             lo == ThresholdMin(Values(nums))
             hi == ThresholdMax(Values(nums))
             vals == [k \in DOMAIN d |-> Clamp(nums[k], lo, hi)]
             uniq_vals == Range(vals)
             cmap == PickColormap(uniq_vals)
             n_vals == NVals(uniq_vals)
             new_vals == [k \in DOMAIN d |->
                             Digitize(vals[k], SetMin(uniq_vals), SetMax(uniq_vals) + Scale, n_vals) - 1]
             bins == [done |-> TRUE, vals |-> vals, n_vals |-> n_vals, new_vals |-> new_vals]
         IN  IF \E k \in DOMAIN d : new_vals[k] \notin 0..(n_vals - 1)
             THEN Outcome(TRUE, EmptyDict, Some(lo), Some(hi), Some(cmap), bins)
             ELSE Outcome(FALSE, [k \in DOMAIN d |-> PaletteColor(cmap, n_vals, new_vals[k])],
                          Some(lo), Some(hi), Some(cmap), bins)

Kept(raised, vc) == Outcome(raised, vc, vertexColorMin, vertexColorMax, colormap, NoBinning)

(* lines 186-258 *)
ColorsOf(vc) ==
    IF vc.type = "dict"
    THEN LET d == vc.dict
             uniq_vals == Range(d)
         IN  IF (\A x \in uniq_vals : x.t = "int") \/ (\A x \in uniq_vals : x.t = "float")
             THEN NumericColors(d)
             ELSE IF \A x \in uniq_vals : x.t = "tuple"
             THEN IF \A x \in uniq_vals : x.n = 3
                  THEN Kept(FALSE, [k \in DOMAIN d |-> TupleColor(d[k])])
                  ELSE Kept(FALSE, AllDefault)
             ELSE IF \A x \in uniq_vals : x.t = "str"
             THEN IF \A x \in uniq_vals : IsColorName(x.s)
                  THEN Kept(FALSE, [k \in DOMAIN d |-> ToRgb(d[k].s)])
                  ELSE Kept(TRUE, EmptyDict)
             ELSE Kept(FALSE, AllDefault)
    ELSE IF vc.type = "str"
    THEN IF graph.nodes # {} /\ ~IsColorName(vc.str)
         THEN Kept(TRUE, EmptyDict)
         ELSE Kept(FALSE, [x \in graph.nodes |-> ToRgb(vc.str)])
    ELSE Kept(FALSE, AllDefault)

SetVertexColor ==
    /\ pc = "set_vertex_color"
    /\ \E vc \in FromAttr(vertexColor) :
          LET out == ColorsOf(vc)
          IN  /\ vertexColor' = IF out.raised THEN vc ELSE DictArg(out.vc)
              /\ vertexColorMin' = out.vmin
              /\ vertexColorMax' = out.vmax
              /\ colormap' = out.cmap
              /\ binning' = out.binning
              /\ pc' = IF out.raised THEN "raised" ELSE "set_vertex_size"
    /\ UNCHANGED <<args, g, graph, vertexSize, vertexSizeMin, vertexSizeMax,
                   coordLookups, drawn>>

-----------------------------------------------------------------------------
(* _set_vertex_size *)

(* the size the error branches reset every node to, in hundredths *)
ResetSizes == [x \in graph.nodes |-> IntV(25).n]

IsNumber(v) == v.t \in {"int", "float"}

(* lines 260-282.  list(...)[0] raises IndexError for an empty dict *)
SizesOf(vs) ==
    IF vs.type = "dict"
    THEN IF DOMAIN vs.dict = {}
         THEN [raised |-> TRUE, vs |-> EmptyDict, vmin |-> vertexSizeMin, vmax |-> vertexSizeMax]
         ELSE LET test_val == vs.dict[SetMin(DOMAIN vs.dict)]
                  nums == [k \in DOMAIN vs.dict |-> vs.dict[k].n]
              IN  IF IsNumber(test_val)
                  THEN [raised |-> FALSE, vs |-> nums,
                        vmin |-> IF vertexSizeMin = None
                                 THEN Some(Percentile(Values(nums), vertexSizeTrimValue))
                                 ELSE vertexSizeMin,
                        vmax |-> IF vertexSizeMax = None
                                 THEN Some(Percentile(Values(nums), 100 - vertexSizeTrimValue))
                                 ELSE vertexSizeMax]
                  ELSE [raised |-> FALSE, vs |-> ResetSizes,
                        vmin |-> vertexSizeMin, vmax |-> vertexSizeMax]
    ELSE IF vs.type = "num"
    THEN [raised |-> FALSE, vs |-> [x \in graph.nodes |-> vs.num],
          vmin |-> vertexSizeMin, vmax |-> vertexSizeMax]
    ELSE [raised |-> FALSE, vs |-> ResetSizes, vmin |-> vertexSizeMin, vmax |-> vertexSizeMax]

SetVertexSize ==
    /\ pc = "set_vertex_size"
    /\ LET out == SizesOf(vertexSize)
       IN  /\ vertexSize' = IF out.raised THEN vertexSize ELSE DictArg(out.vs)
           /\ vertexSizeMin' = out.vmin
           /\ vertexSizeMax' = out.vmax
           /\ pc' = IF out.raised THEN "raised" ELSE "plot_nodes"
    /\ UNCHANGED <<args, g, graph, vertexColor, vertexColorMin, vertexColorMax, colormap,
                   binning, coordLookups, drawn>>

-----------------------------------------------------------------------------
(* _plot_nodes, lines 284-300.  min() raises ValueError for an empty dict *)

NodeColour(i) == IF i \in DOMAIN vertexColor.dict THEN vertexColor.dict[i]
                 ELSE vertexColorDefault

NodeSize(i) == IF i \in DOMAIN vertexSize.dict
               THEN vertexSize.dict[i] * vertexSizeScale
               ELSE SetMin(Range(vertexSize.dict)) * vertexSizeScale

PlotNodes ==
    /\ pc = "plot_nodes"
    /\ IF DOMAIN vertexSize.dict = {}
       THEN pc' = "raised" /\ UNCHANGED <<coordLookups, drawn>>
       ELSE /\ coordLookups' = coordLookups \cup graph.nodes
            /\ IF CoordsRaise(graph.nodes)
               THEN pc' = "raised" /\ drawn' = drawn
               ELSE /\ pc' = "place_attr_label"
                    /\ drawn' = [drawn EXCEPT !.sizes = [i \in graph.nodes |-> NodeSize(i)],
                                              !.colours = [i \in graph.nodes |-> NodeColour(i)]]
    /\ UNCHANGED <<args, g, graph, vertexColor, vertexColorMin, vertexColorMax, colormap,
                   binning, vertexSize, vertexSizeMin, vertexSizeMax>>

-----------------------------------------------------------------------------
(* _place_attr_label, lines 302-337 *)

HasLabel(i) == i \in DOMAIN g.label

(* legend: the label of node i, 'Unknown' for a node without the attribute *)
LegendLabel(i) == IF HasLabel(i) THEN g.label[i] ELSE "Unknown"

(* the node that gives a legend entry its colour: the first with that label *)
FirstWith(lab) == SetMin({i \in graph.nodes : LegendLabel(i) = lab})

LegendLabels == {LegendLabel(i) : i \in graph.nodes}

(* centroid: the nodes whose coordinates are averaged for a label *)
Labelled == {i \in graph.nodes : HasLabel(i)}

PlaceAttrLabel ==
    /\ pc = "place_attr_label"
    /\ IF labelAttr # None /\ labelAttrType = "legend"
       THEN /\ coordLookups' = coordLookups
            /\ IF \E lab \in LegendLabels : FirstWith(lab) \notin DOMAIN vertexColor.dict
               THEN pc' = "raised" /\ drawn' = drawn
               ELSE /\ pc' = "clean"
                    /\ drawn' = [drawn EXCEPT !.legend =
                                    [lab \in LegendLabels |-> vertexColor.dict[FirstWith(lab)]]]
       ELSE IF labelAttr # None /\ labelAttrType = "centroid"
       THEN /\ coordLookups' = coordLookups \cup Labelled
            /\ IF CoordsRaise(Labelled)
               THEN pc' = "raised" /\ drawn' = drawn
               ELSE /\ pc' = "clean"
                    /\ drawn' = [drawn EXCEPT !.centroids =
                                    [lab \in {g.label[i] : i \in Labelled} |->
                                        {g.pos[i] : i \in {j \in Labelled : g.label[j] = lab}}]]
       ELSE pc' = "clean" /\ UNCHANGED <<coordLookups, drawn>>
    /\ UNCHANGED <<args, g, graph, vertexColor, vertexColorMin, vertexColorMax, colormap,
                   binning, vertexSize, vertexSizeMin, vertexSizeMax>>

(* _clean, lines 339-346 *)
Clean ==
    /\ pc = "clean"
    /\ pc' = "show_save"
    /\ UNCHANGED <<args, g, graph, vertexColor, vertexColorMin, vertexColorMax, colormap,
                   binning, vertexSize, vertexSizeMin, vertexSizeMax, coordLookups, drawn>>

(* _show_save, lines 348-353 *)
ShowSave ==
    /\ pc = "show_save"
    /\ pc' = "done"
    /\ UNCHANGED <<args, g, graph, vertexColor, vertexColorMin, vertexColorMax, colormap,
                   binning, vertexSize, vertexSizeMin, vertexSizeMax, coordLookups, drawn>>

Next ==
    \/ MakeGraph
    \/ PlotEdges
    \/ SetVertexColor
    \/ SetVertexSize
    \/ PlotNodes
    \/ PlaceAttrLabel
    \/ Clean
    \/ ShowSave

-----------------------------------------------------------------------------
(* The constructor's arguments and the input graphs *)

(* the defaults of __init__'s signature, lines 74-88 *)
DefaultMaxNColors == 40
DefaultVs == 2
DefaultVsScale == 15
DefaultVsPercentTrim == 0

DefaultArgs ==
    [vc |-> StrArg(Steelblue), cmap |-> None, vc_attr |-> None,
     vc_min |-> None, vc_max |-> None, vc_percent_trim |-> None,
     max_ncolors |-> DefaultMaxNColors,
     vs |-> NumArg(DefaultVs * Scale), vs_scale |-> DefaultVsScale,
     vs_min |-> None, vs_max |-> None, vs_percent_trim |-> DefaultVsPercentTrim,
     label_attr |-> None, label_attr_type |-> "centroid"]

(* node i, when it has them, is at (i, 0) and has label "x" (odd i) or "y" *)
PosOf(i) == <<i, 0>>
LabelOf(i) == IF i % 2 = 1 THEN "x" ELSE "y"

Pairs(ns) == {e \in SUBSET ns : Cardinality(e) = 2}

(* every graph on some of the nodes: any edges, any nodes with 'pos'; a label
   on no node, on node 1, on all nodes but node 1, or on all nodes; the colour
   attribute of node i is the int i *)
GraphsOn(ns) ==
    {[nodes |-> ns, edges |-> es,
      pos |-> [i \in ps |-> PosOf(i)],
      label |-> [i \in ls |-> LabelOf(i)],
      attr |-> [i \in ns |-> IntV(i)]] :
        es \in SUBSET Pairs(ns), ps \in SUBSET ns,
        ls \in {{}, ns \cap {1}, ns \ {1}, ns}}
Graphs == UNION {GraphsOn(ns) : ns \in SUBSET Nodes}

(* chain graph on all nodes, all with 'pos', with the colour attribute attr *)
Chain(attr) ==
    [nodes |-> Nodes, edges |-> {e \in Pairs(Nodes) : SetMax(e) - SetMin(e) = 1},
     pos |-> [i \in Nodes |-> PosOf(i)],
     label |-> [i \in Nodes |-> LabelOf(i)],
     attr |-> attr]

InitWith(gs, as) ==
    /\ g \in gs
    /\ args \in as
    /\ graph = [nodes |-> {}, edges |-> {}]
    /\ vertexColor = args.vc
    /\ vertexColorMin = args.vc_min
    /\ vertexColorMax = args.vc_max
    /\ colormap = args.cmap
    /\ binning = NoBinning
    /\ vertexSize = args.vs
    /\ vertexSizeMin = args.vs_min
    /\ vertexSizeMax = args.vs_max
    /\ coordLookups = {}
    /\ drawn = [edges |-> {}, sizes |-> EmptyDict, colours |-> EmptyDict,
                legend |-> EmptyDict, centroids |-> EmptyDict]
    /\ pc = "init"

WholeVals == {k * Scale : k \in 0..MaxVal}
IntVals == {IntV(k) : k \in 0..MaxVal}
FloatVals == {FloatV(c) : c \in WholeVals}
Strings == {StrV(<<"a", "2">>), StrV(<<"a", "1", "0">>), StrV(<<"a", "0", "2">>), StrV(<<"r">>)}

(* thresholds between the whole numbers: 0.5 and 2.5 *)
Halves == {50, 250}
Optional(S) == {None} \cup {Some(x) : x \in S}
TrimValues == {25, 60}

(* SpecGraph: any graph, drawn with the default colours and sizes and with
   each kind of label *)
GraphArgs ==
    {[DefaultArgs EXCEPT !.label_attr = la, !.label_attr_type = lt] :
        la \in Optional({"label"}), lt \in {"legend", "centroid"}}
    \ {[DefaultArgs EXCEPT !.label_attr_type = "legend"]}
InitGraph == InitWith(Graphs, GraphArgs)
SpecGraph == InitGraph /\ [][Next]_vars

(* SpecClamp: a vc dictionary of ints (or of floats) on all nodes, with any
   thresholds and any trim *)
NumericDicts == [Nodes -> IntVals] \cup [Nodes -> {FloatV(0), FloatV(MaxVal * Scale)}]
ClampArgs ==
    {[DefaultArgs EXCEPT !.vc = DictArg(d), !.vc_min = lo, !.vc_max = hi,
                         !.vc_percent_trim = tr] :
        d \in NumericDicts, lo \in Optional(Halves), hi \in Optional(Halves),
        tr \in Optional(TrimValues)}
InitClamp == InitWith({Chain([i \in Nodes |-> IntV(i)])}, ClampArgs)
SpecClamp == InitClamp /\ [][Next]_vars

(* SpecBins: a vc dictionary of ints on all nodes, with any max_ncolors *)
BinsArgs ==
    {[DefaultArgs EXCEPT !.vc = DictArg(d), !.vc_max = hi, !.vc_percent_trim = tr,
                         !.max_ncolors = mx, !.cmap = cm] :
        d \in [Nodes -> IntVals], hi \in Optional({150}), tr \in Optional({25}),
        mx \in 0..MaxColors, cm \in Optional({"viridis"})}
InitBins == InitWith({Chain([i \in Nodes |-> IntV(i)])}, BinsArgs)
SpecBins == InitBins /\ [][Next]_vars

(* SpecAttr: vc_attr given, the attribute values all strings, all ints, or
   mixed, with any kind of vc *)
AttrDicts == [Nodes -> Strings] \cup [Nodes -> {IntV(0), IntV(MaxVal)}]
                \cup {[i \in Nodes |-> IF i = 1 THEN IntV(1) ELSE StrV(<<"r">>)]}
VcArgs == {StrArg(Steelblue), StrArg(<<"a", "2">>), OtherArg,
           DictArg([i \in Nodes |-> IntV(i % 2)]),
           DictArg([i \in {1} |-> StrV(<<"r">>)]),
           DictArg([i \in Nodes |-> TupV(2)])}
AttrArgs ==
    {[DefaultArgs EXCEPT !.vc = vc, !.vc_attr = Some("attr"), !.vc_min = lo,
                         !.max_ncolors = mx] :
        vc \in VcArgs, lo \in Optional({100}),
        mx \in {0, MaxColors - 1, MaxColors}}
InitAttr == InitWith({Chain(attr) : attr \in AttrDicts}, AttrArgs)
SpecAttr == InitAttr /\ [][Next]_vars

(* SpecSize: a vs dictionary on some of the nodes, with any thresholds *)
SizeDicts == UNION {[ks -> IntVals] : ks \in SUBSET Nodes}
                \cup {[i \in Nodes |-> StrV(<<"r">>)]}
SizeArgs ==
    {[DefaultArgs EXCEPT !.vs = vs, !.vs_min = lo, !.vs_max = hi,
                         !.vs_percent_trim = tr] :
        vs \in {DictArg(d) : d \in SizeDicts} \cup {NumArg(DefaultVs * Scale), OtherArg},
        lo \in Optional(Halves), hi \in Optional(Halves),
        tr \in TrimValues \cup {DefaultVsPercentTrim}}
InitSize == InitWith({Chain([i \in Nodes |-> IntV(i)])}, SizeArgs)
SpecSize == InitSize /\ [][Next]_vars

Init == InitGraph \/ InitClamp \/ InitBins \/ InitAttr \/ InitSize
Spec == Init /\ [][Next]_vars

-----------------------------------------------------------------------------
(* Properties *)

PosNodes == {n \in g.nodes : n \in DOMAIN g.pos}
AfterColor == pc \in {"set_vertex_size", "plot_nodes", "place_attr_label",
                      "clean", "show_save", "done"}

(* the vc dictionary's numbers as passed *)
PassedVals == [k \in DOMAIN args.vc.dict |-> args.vc.dict[k].n]

(* C1, as claimed: when vs is a dictionary of numbers, the size drawn for a
   node of the dictionary is vs_scale times its value clamped to
   [vs_min, vs_max] (a value below vs_min reset to vs_min, one above vs_max
   reset to vs_max), the way the colour values are clamped. *)
C1_SizesClamped ==
    (/\ pc = "done"
     /\ args.vs.type = "dict"
     /\ \A v \in Range(args.vs.dict) : IsNumber(v))
    => \A i \in graph.nodes \cap DOMAIN args.vs.dict :
          drawn.sizes[i] = vertexSizeScale
                             * Clamp(args.vs.dict[i].n, vertexSizeMin[1], vertexSizeMax[1])

(* C2, as claimed: after the clamping loop every value lies between vc_min
   and vc_max, whatever the two thresholds are. *)
C2_AlwaysWithin ==
    binning.done =>
        \A k \in DOMAIN binning.vals :
            /\ vertexColorMin[1] <= binning.vals[k]
            /\ binning.vals[k] <= vertexColorMax[1]

(* C2, amended: every value above vc_max is reset to vc_max; every value not
   above vc_max and below vc_min is reset to vc_min; any other value is kept;
   and when vc_min <= vc_max every value lies between them after the loop. *)
C2_ClampedWhenOrdered ==
    (binning.done /\ vertexColorAttr = None) =>
        \A k \in DOMAIN binning.vals :
            LET v == PassedVals[k]
                lo == vertexColorMin[1]
                hi == vertexColorMax[1]
            IN  /\ v > hi => binning.vals[k] = hi
                /\ (v <= hi /\ v < lo) => binning.vals[k] = lo
                /\ (v <= hi /\ v >= lo) => binning.vals[k] = v
                /\ lo <= hi => (lo <= binning.vals[k] /\ binning.vals[k] <= hi)

(* C2's case: ordered thresholds, one value below vc_min and one above vc_max *)
C2_Witness ==
    /\ binning.done /\ vertexColorAttr = None
    /\ vertexColorMin[1] < vertexColorMax[1]
    /\ \E k \in DOMAIN PassedVals : PassedVals[k] < vertexColorMin[1]
    /\ \E k \in DOMAIN PassedVals : PassedVals[k] > vertexColorMax[1]

(* C3: with vc_attr given, what _set_vertex_color does (the colours, the
   thresholds, the palette, an exception) with the vc passed is what it does
   with the default vc, all else equal; every vc of VcArgs (strings,
   dictionaries, a value of another type) is passed in some construction, so
   any two constructions that differ only in vc do the same. *)
C3_VcOverridden ==
    (pc = "set_vertex_color" /\ vertexColorAttr # None) =>
        {ColorsOf(v) : v \in FromAttr(vertexColor)}
            = {ColorsOf(v) : v \in FromAttr(DefaultArgs.vc)}

(* C3's case: vc_attr given and vc a dictionary, about to be coloured *)
C3_Witness ==
    /\ pc = "set_vertex_color" /\ vertexColorAttr # None
    /\ vertexColor.type = "dict"
    /\ \E i \in graph.nodes : g.attr[i].t = "int"

(* the binning's three parts: n_vals, the range of the bin indices, and the
   number of colours given to nodes *)
BinsInRange ==
    /\ binning.n_vals = SetMin({Cardinality(Range(binning.vals)), maxNColors})
    /\ \A k \in DOMAIN binning.new_vals : binning.new_vals[k] \in 0..(binning.n_vals - 1)
    /\ AfterColor => Cardinality(Range(vertexColor.dict)) <= maxNColors

(* C4, as claimed: for numeric values, whatever max_ncolors is, n_vals is
   min(distinct values, max_ncolors), every bin index is in 0..n_vals-1, and
   at most max_ncolors colours are given to nodes. *)
C4_AnyMaxNColors == binning.done => BinsInRange

(* C4, amended: the same, for max_ncolors >= 1. *)
C4_PositiveMaxNColors == (binning.done /\ maxNColors >= 1) => BinsInRange

(* C4's case: more distinct values than max_ncolors, coloured *)
C4_Witness ==
    /\ binning.done /\ AfterColor
    /\ maxNColors >= 1
    /\ Cardinality(Range(binning.vals)) > maxNColors
    /\ Cardinality(Range(vertexColor.dict)) = maxNColors

C7_State ==
    /\ pc # "init" =>
          /\ graph.nodes = PosNodes
          /\ graph.edges = {e \in g.edges : e \subseteq PosNodes}
    /\ coordLookups \subseteq PosNodes

C7_PlottedSubgraph == [](C7_State) /\ [][g' = g]_vars

(* C7's case: a graph with a node without 'pos' and an edge to it, drawn with
   edges and centroid labels *)
C7_Witness ==
    /\ pc = "done"
    /\ \E e \in g.edges : ~(e \subseteq PosNodes)
    /\ graph.edges # {}
    /\ labelAttr # None /\ labelAttrType = "centroid"
    /\ coordLookups = PosNodes
    /\ \E i \in g.nodes \ PosNodes : i \in DOMAIN g.label

====
